---- MODULE Spec2Model ----
\* Model of backend/app/database/session.py (DatabaseSession and
\* SessionContextManager) and of the settings object of backend/app/core/config.py.
\*
\* Two parts share the sessions and the persisted rows:
\*   - the factory part: DatabaseSession.__init__, the URL / engine / session-factory
\*     construction chain, the create_async_session generator, the
\*     open_async_session context manager and the constructor
\*     SessionContextManager()  (FactoryNext);
\*   - the wrapper part: SessionContextManager.__aenter__, __aexit__, commit and
\*     rollback, one step per await, on the instance the constructor returned
\*     (WrapperNext).
\* Spec is the whole program. The constructor raises on every settings object, so
\* no step of WrapperNext is ever enabled (CoroutinesNeverRun) and SpecFactory,
\* which is Spec without the steps that never happen, has the same behaviours.
EXTENDS Integers, Sequences, FiniteSets, TLC

VARIABLES
    settings,         \* the settings object handed to DatabaseSession.__init__
    dbs,              \* the DatabaseSession instance: its attributes once constructed
    gens,             \* generator objects returned by create_async_session()
    engines,          \* engines create_async_engine has built: engine id -> url, params
    factories,        \* session factories built: factory id -> its engine, params
    wrapperCtor,      \* outcome of SessionContextManager(): "none", "ok", "AttributeError", ...
    session_factory,  \* SessionContextManager.session_factory (0: attribute not set)
    session,          \* SessionContextManager.session (0: None)
    sess,             \* every session object produced so far
    db,               \* persisted rows, <<session id, row>>
    pc,               \* per task: "caller", or the await it is suspended at
    cur,              \* per task: the session object the awaited call was made on
    inExit,           \* per task: the rollback() frame was entered from __aexit__
    depth,            \* per task: contexts entered and not yet exited
    result,           \* per task: how its last wrapper call ended
    lastCall,         \* per task: its last wrapper call
    faults            \* failures of underlying session calls injected so far

factoryVars == <<settings, dbs, gens, engines, factories, wrapperCtor>>
wrapperVars == <<session_factory, session, pc, cur, inExit, depth, result,
                 lastCall, faults>>
vars == <<settings, dbs, gens, engines, factories, wrapperCtor, session_factory,
          session, sess, db, pc, cur, inExit, depth, result, lastCall,
          faults>>

\* ---------------------------------------------------------------- bounds
MaxSessions == 2      \* session objects created in one run
MaxFaults == 2        \* failing underlying calls in one run
MaxDepth == 1         \* nested entries of one task
MaxGens == 2          \* create_async_session() invocations in one run

Rows == {"row"}       \* rows a body may stage
AllTasks == {1, 2}     \* caller tasks that may share the wrapper instance
None == 0

\* ---------------------------------------------------------------- sessions
\* A session object as session_factory() / a yielded factory returns it:
\* bound to the factory's engine, open, nothing staged, nothing invoked.
NewSession(f) ==
    [factory |-> f, engine |-> factories[f].engine, open |-> TRUE, staged |-> {},
     discarded |-> {}, commits |-> 0, rollbacks |-> 0, failed |-> {}]

\* session.commit() succeeded: the staged rows are persisted.
SessionCommitted(s) == [sess EXCEPT ![s].staged = {}]
Persisted(s) == db \cup {<<s, k>> : k \in sess[s].staged}
\* session.rollback() succeeded: the staged rows are discarded.
SessionRolledBack(s) ==
    [sess EXCEPT ![s].staged = {}, ![s].discarded = @ \cup sess[s].staged]
\* session.close() succeeded: the session is closed, what is still staged is
\* discarded.
SessionClosed(s) ==
    [sess EXCEPT ![s].open = FALSE, ![s].staged = {},
                 ![s].discarded = @ \cup sess[s].staged]
\* an underlying call of the given kind raised.
SessionFailed(s, kind) == [sess EXCEPT ![s].failed = @ \cup {kind}]

OpenSessions == {s \in 1..Len(sess) : sess[s].open}

\* ---------------------------------------------------------------- wrapper part
\* The call name a frame reports: a rollback() frame entered from __aexit__
\* raises or returns through __aexit__.
CallName(t, meth) == IF inExit[t] THEN "exit" ELSE meth

\* The coroutine ends (returns or raises) and control is back in the caller.
Return(t, call, res) ==
    /\ pc' = [pc EXCEPT ![t] = "caller"]
    /\ result' = [result EXCEPT ![t] = res]
    /\ lastCall' = [lastCall EXCEPT ![t] = call]
    /\ inExit' = [inExit EXCEPT ![t] = FALSE]

\* The coroutine suspends at an await of an underlying session call.
Suspend(t, call, at, fromExit) ==
    /\ pc' = [pc EXCEPT ![t] = at]
    /\ result' = [result EXCEPT ![t] = "pending"]
    /\ lastCall' = [lastCall EXCEPT ![t] = call]
    /\ inExit' = [inExit EXCEPT ![t] = fromExit]

\* __aenter__: self.session = self.session_factory(); no await, one step.
aenter(t) ==
    /\ pc[t] = "caller"
    /\ depth[t] < MaxDepth
    /\ Len(sess) < MaxSessions
    /\ session_factory # None
    /\ sess' = Append(sess, NewSession(session_factory))
    /\ session' = Len(sess) + 1
    /\ depth' = [depth EXCEPT ![t] = @ + 1]
    /\ cur' = [cur EXCEPT ![t] = None]
    /\ Return(t, "enter", "ok")
    /\ UNCHANGED <<db, faults, session_factory, factoryVars>>

\* The body of the context stages a row on the attached session.
Stage(t, k) ==
    /\ pc[t] = "caller"
    /\ depth[t] > 0
    /\ session # None
    /\ sess[session].open
    /\ k \notin sess[session].staged
    /\ sess' = [sess EXCEPT ![session].staged = @ \cup {k}]
    /\ UNCHANGED <<db, session, wrapperVars, factoryVars>>

\* commit(), line 134 up to its await: self.session.commit() on the stored
\* reference; on None the attribute access raises AttributeError.
Commit134(t, fromExit) ==
    /\ pc[t] = "caller"
    /\ IF session = None
       THEN /\ Return(t, IF fromExit THEN "exit" ELSE "commit", "AttributeError")
            /\ cur' = [cur EXCEPT ![t] = None]
            /\ UNCHANGED sess
       ELSE /\ Suspend(t, IF fromExit THEN "exit" ELSE "commit", "commit134", fromExit)
            /\ cur' = [cur EXCEPT ![t] = session]
            /\ sess' = [sess EXCEPT ![session].commits = @ + 1]
    /\ UNCHANGED <<db, session, faults>>

\* The awaited session.commit() ends. On success line 135 runs up to its
\* await: self.session is read again and close() is called on it. On failure
\* the exception leaves commit() with lines 135-136 not run.
Commit134Done(t) ==
    /\ pc[t] = "commit134"
    /\ \/ /\ db' = Persisted(cur[t])
          /\ IF session = None
             THEN /\ sess' = SessionCommitted(cur[t])
                  /\ Return(t, CallName(t, "commit"), "AttributeError")
                  /\ cur' = [cur EXCEPT ![t] = None]
             ELSE /\ sess' = SessionCommitted(cur[t])
                  /\ cur' = [cur EXCEPT ![t] = session]
                  /\ pc' = [pc EXCEPT ![t] = "commit135"]
                  /\ UNCHANGED <<result, lastCall, inExit>>
          /\ UNCHANGED <<session, faults>>
       \/ /\ faults < MaxFaults
          /\ faults' = faults + 1
          /\ sess' = SessionFailed(cur[t], "commit")
          /\ Return(t, CallName(t, "commit"), "DBError")
          /\ UNCHANGED <<db, session, cur>>

\* The awaited session.close() of line 135 ends; on success line 136 clears the
\* stored reference in the same step (there is no await between them).
Commit135Done(t) ==
    /\ pc[t] = "commit135"
    /\ \/ /\ sess' = SessionClosed(cur[t])
          /\ session' = None
          /\ Return(t, CallName(t, "commit"), "ok")
          /\ UNCHANGED <<db, cur, faults>>
       \/ /\ faults < MaxFaults
          /\ faults' = faults + 1
          /\ sess' = SessionFailed(cur[t], "close")
          /\ Return(t, CallName(t, "commit"), "DBError")
          /\ UNCHANGED <<db, session, cur>>

\* rollback(), line 139 up to its await.
Rollback139(t, fromExit) ==
    /\ pc[t] = "caller"
    /\ IF session = None
       THEN /\ Return(t, IF fromExit THEN "exit" ELSE "rollback", "AttributeError")
            /\ cur' = [cur EXCEPT ![t] = None]
            /\ UNCHANGED sess
       ELSE /\ Suspend(t, IF fromExit THEN "exit" ELSE "rollback", "rollback139", fromExit)
            /\ cur' = [cur EXCEPT ![t] = session]
            /\ sess' = [sess EXCEPT ![session].rollbacks = @ + 1]
    /\ UNCHANGED <<db, session, faults>>

\* The awaited session.rollback() ends; on success line 140 runs up to its await.
Rollback139Done(t) ==
    /\ pc[t] = "rollback139"
    /\ \/ /\ IF session = None
             THEN /\ sess' = SessionRolledBack(cur[t])
                  /\ Return(t, CallName(t, "rollback"), "AttributeError")
                  /\ cur' = [cur EXCEPT ![t] = None]
             ELSE /\ sess' = SessionRolledBack(cur[t])
                  /\ cur' = [cur EXCEPT ![t] = session]
                  /\ pc' = [pc EXCEPT ![t] = "rollback140"]
                  /\ UNCHANGED <<result, lastCall, inExit>>
          /\ UNCHANGED <<db, session, faults>>
       \/ /\ faults < MaxFaults
          /\ faults' = faults + 1
          /\ sess' = SessionFailed(cur[t], "rollback")
          /\ Return(t, CallName(t, "rollback"), "DBError")
          /\ UNCHANGED <<db, session, cur>>

\* The awaited session.close() of line 140 ends; on success line 141 clears the
\* stored reference in the same step.
Rollback140Done(t) ==
    /\ pc[t] = "rollback140"
    /\ \/ /\ sess' = SessionClosed(cur[t])
          /\ session' = None
          /\ Return(t, CallName(t, "rollback"), "ok")
          /\ UNCHANGED <<db, cur, faults>>
       \/ /\ faults < MaxFaults
          /\ faults' = faults + 1
          /\ sess' = SessionFailed(cur[t], "close")
          /\ Return(t, CallName(t, "rollback"), "DBError")
          /\ UNCHANGED <<db, session, cur>>

\* commit() called by the body.
commit(t) ==
    /\ Commit134(t, FALSE)
    /\ UNCHANGED <<depth, session_factory, factoryVars>>

\* rollback() called by the body.
rollback(t) ==
    /\ Rollback139(t, FALSE)
    /\ UNCHANGED <<depth, session_factory, factoryVars>>

\* __aexit__(*args): exc says whether the body raised; the arguments are
\* ignored; await self.rollback().
aexit(t, exc) ==
    /\ depth[t] > 0
    /\ Rollback139(t, TRUE)
    /\ depth' = [depth EXCEPT ![t] = @ - 1]
    /\ UNCHANGED <<session_factory, factoryVars>>

\* What no wrapper method touches.
WrapperFrame == UNCHANGED <<depth, session_factory, factoryVars>>

\* A caller has the instance SessionContextManager() returned.
HasInstance == wrapperCtor = "ok"

\* The steps of the caller tasks on the instance.
WrapperNext ==
    \E t \in AllTasks :
        \/ HasInstance /\ aenter(t)
        \/ \E k \in Rows : HasInstance /\ Stage(t, k)
        \/ HasInstance /\ commit(t)
        \/ HasInstance /\ rollback(t)
        \/ \E exc \in BOOLEAN : HasInstance /\ aexit(t, exc)
        \/ HasInstance /\ Commit134Done(t) /\ WrapperFrame
        \/ HasInstance /\ Commit135Done(t) /\ WrapperFrame
        \/ HasInstance /\ Rollback139Done(t) /\ WrapperFrame
        \/ HasInstance /\ Rollback140Done(t) /\ WrapperFrame

\* ---------------------------------------------------------------- factory part
\* Attributes of the settings object of config.py (lines 5-23); the object a
\* caller passes instead carries db, engine and session as well.
SettingsAttrs ==
    {"PROJECT_NAME", "MAIN_PATH", "APP_PATH", "MEDIA_FOLDER", "MEDIA_PATH",
     "STATIC_FOLDER_NAME", "STATIC_FOLDER", "TEMPLATES_FOLDER_NAME", "TEMPLATES_FOLDER"}

UrlKeys == {"drivername", "host"}              \* keys of settings.db.params
SessionKeys == {"bind"}        \* keys of settings.session.params

\* config.settings, the default argument of DatabaseSession.__init__.
DefaultSettings ==
    [attrs |-> SettingsAttrs, db |-> {}, engine |-> TRUE, session |-> {}]

\* The settings objects a run starts from. engine: whether create_async_engine
\* accepts the engine parameters.
SettingsInputs ==
    {DefaultSettings} \cup
    {[attrs |-> SettingsAttrs \cup {"db", "engine", "session"},
      db |-> ks, engine |-> ok, session |-> sk] :
        ks \in SUBSET UrlKeys, ok \in BOOLEAN, sk \in SUBSET SessionKeys}

\* DatabaseSession.__init__: reads settings.db.params, settings.engine.params
\* and settings.session.params; a missing attribute raises AttributeError.
DatabaseSessionInit(s) ==
    IF {"db", "engine", "session"} \subseteq s.attrs
    THEN [state |-> "ok", url_params |-> s.db, engine_params |-> s.engine,
          sessionmaker_params |-> s.session]
    ELSE [state |-> "AttributeError", url_params |-> {}, engine_params |-> TRUE,
          sessionmaker_params |-> {}]

\* __create_url: URL.create(**url_params); drivername is its required argument.
create_url(url_params) ==
    IF "drivername" \in url_params
    THEN [ok |-> TRUE, url |-> url_params]
    ELSE [ok |-> FALSE, url |-> {}]

\* __create_async_engine: create_async_engine(url, **engine_params); a new
\* engine on every call.
create_async_engine(url, engine_params) ==
    IF engine_params
    THEN [ok |-> TRUE, engine |-> [url |-> url, params |-> engine_params]]
    ELSE [ok |-> FALSE, engine |-> [url |-> url, params |-> engine_params]]

\* __create_async_session_factory: async_sessionmaker(**sessionmaker_params,
\* class_=AsyncSession, bind=async_engine); a parameter named class_ or bind is a
\* repeated keyword argument (TypeError).
create_async_session_factory(async_engine, sessionmaker_params) ==
    IF sessionmaker_params \cap {"class_", "bind"} = {}
    THEN [ok |-> TRUE, factory |-> [engine |-> async_engine, params |-> sessionmaker_params]]
    ELSE [ok |-> FALSE, factory |-> [engine |-> async_engine, params |-> sessionmaker_params]]

\* Variant of precreate_async_session: a failure of URL.create does not end the
\* chain, the engine and the factory are built all the same.
precreateIgnoresUrlFailure(self, engs, facs) ==
    LET u == create_url(self.url_params)
        e == create_async_engine(u.url, self.engine_params)
        f == create_async_session_factory(Len(engs) + 1, self.sessionmaker_params)
    IN  [ok |-> TRUE,
         calls |-> <<"URL.create", "create_async_engine", "async_sessionmaker">>,
         engine |-> Len(engs) + 1, factory |-> Len(facs) + 1,
         newEngines |-> <<e.engine>>, newFactories |-> <<f.factory>>]

\* Variant of precreate_async_session: the engine is built once and kept; later
\* calls bind their factory to that first engine.
precreateSharesEngine(self, engs, facs) ==
    LET u == create_url(self.url_params)
        e == create_async_engine(u.url, self.engine_params)
        f == create_async_session_factory(1, self.sessionmaker_params)
    IN  IF ~u.ok
        THEN [ok |-> FALSE, calls |-> <<"URL.create">>,
              engine |-> None, factory |-> None,
              newEngines |-> <<>>, newFactories |-> <<>>]
        ELSE IF ~e.ok
        THEN [ok |-> FALSE, calls |-> <<"URL.create", "create_async_engine">>,
              engine |-> None, factory |-> None,
              newEngines |-> <<>>, newFactories |-> <<>>]
        ELSE IF ~f.ok
        THEN [ok |-> FALSE,
              calls |-> <<"URL.create", "create_async_engine", "async_sessionmaker">>,
              engine |-> 1, factory |-> None,
              newEngines |-> IF engs = <<>> THEN <<e.engine>> ELSE <<>>,
              newFactories |-> <<>>]
        ELSE [ok |-> TRUE,
              calls |-> <<"URL.create", "create_async_engine", "async_sessionmaker">>,
              engine |-> 1, factory |-> Len(facs) + 1,
              newEngines |-> IF engs = <<>> THEN <<e.engine>> ELSE <<>>,
              newFactories |-> <<f.factory>>]

\* __precreate_async_session on an instance with the given attributes, with
\* engs the engines built so far: URL, then engine, then factory; an exception
\* ends the chain. calls: the library calls attempted, in order; engine, factory:
\* the ids of what the chain built (None: not built); newEngines, newFactories:
\* the objects themselves.
precreate_async_session(self, engs, facs) ==
    LET u == create_url(self.url_params)
        e == create_async_engine(u.url, self.engine_params)
        f == create_async_session_factory(Len(engs) + 1, self.sessionmaker_params)
    IN  IF ~u.ok
        THEN [ok |-> FALSE, calls |-> <<"URL.create">>,
              engine |-> None, factory |-> None,
              newEngines |-> <<>>, newFactories |-> <<>>]
        ELSE IF ~e.ok
        THEN [ok |-> FALSE, calls |-> <<"URL.create", "create_async_engine">>,
              engine |-> None, factory |-> None,
              newEngines |-> <<>>, newFactories |-> <<>>]
        ELSE IF ~f.ok
        THEN [ok |-> FALSE,
              calls |-> <<"URL.create", "create_async_engine", "async_sessionmaker">>,
              engine |-> Len(engs) + 1, factory |-> None,
              newEngines |-> <<e.engine>>, newFactories |-> <<>>]
        ELSE [ok |-> TRUE,
              calls |-> <<"URL.create", "create_async_engine", "async_sessionmaker">>,
              engine |-> Len(engs) + 1, factory |-> Len(facs) + 1,
              newEngines |-> <<e.engine>>, newFactories |-> <<f.factory>>]

\* DatabaseSession(settings).
Construct ==
    /\ dbs.state = "none"
    /\ dbs' = DatabaseSessionInit(settings)
    /\ UNCHANGED <<settings, gens, engines, factories, wrapperCtor, sess, db, wrapperVars>>

\* A call of create_async_session() (cm = FALSE) or of open_async_session()
\* (cm = TRUE, which returns the same generator to contextlib): a generator
\* object; none of the body has run yet.
create_async_session(cm) ==
    /\ dbs.state = "ok"
    /\ Len(gens) < MaxGens
    /\ gens' = Append(gens, [state |-> "created", cm |-> cm, calls |-> <<>>,
                             engine |-> None, factory |-> None, exc |-> FALSE])
    /\ UNCHANGED <<settings, dbs, engines, factories, wrapperCtor, sess, db, wrapperVars>>

\* The first next() on the generator (the __enter__ of the context manager):
\* lines 99-101, up to the yield of what __precreate_async_session returned.
GenStart(g) ==
    /\ gens[g].state = "created"
    /\ LET r == precreate_async_session(dbs, engines, factories)
       IN  /\ engines' = engines \o r.newEngines
           /\ factories' = factories \o r.newFactories
           /\ gens' = [gens EXCEPT
                  ![g].state = IF r.ok THEN "yielded" ELSE "failed",
                  ![g].calls = r.calls,
                  ![g].engine = r.engine,
                  ![g].factory = r.factory]
    /\ UNCHANGED <<settings, dbs, wrapperCtor, sess, db, wrapperVars>>

\* The caller's block calls the yielded factory: a new session.
BodyOpen(g) ==
    /\ gens[g].state = "yielded"
    /\ Len(sess) < MaxSessions
    /\ sess' = Append(sess, NewSession(gens[g].factory))
    /\ UNCHANGED <<db, factoryVars, wrapperVars>>

\* The caller's block stages a row on a session it opened.
BodyStage(g, s, k) ==
    /\ gens[g].state = "yielded"
    /\ sess[s].factory = gens[g].factory
    /\ sess[s].open
    /\ k \notin sess[s].staged
    /\ sess' = [sess EXCEPT ![s].staged = @ \cup {k}]
    /\ UNCHANGED <<db, factoryVars, wrapperVars>>

\* The caller's block ends, normally (next(), the generator runs off its end)
\* or with an exception (throw(), which leaves the generator at the yield):
\* nothing follows the yield of line 101.
GenFinish(g, exc) ==
    /\ gens[g].state = "yielded"
    /\ gens' = [gens EXCEPT ![g].state = "finished", ![g].exc = exc]
    /\ UNCHANGED <<settings, dbs, engines, factories, wrapperCtor, sess, db, wrapperVars>>

\* Names a class body defines, as the class stores them: an identifier with two
\* leading underscores (and no two trailing ones) is stored under the name
\* mangled with the class it is written in.
Mangle(cls, ident) ==
    IF ident.private THEN "_" \o cls \o "__" \o ident.name ELSE ident.name

Private(name) == [private |-> TRUE, name |-> name]
Public(name) == [private |-> FALSE, name |-> name]

\* The methods each class body defines (session.py lines 27-119 and 123-141).
ClassAttrs(cls) ==
    IF cls = "DatabaseSession"
    THEN {Mangle(cls, i) : i \in
            {Public("__init__"), Private("create_url"), Private("create_async_engine"),
             Private("create_async_session_factory"), Private("precreate_async_session"),
             Public("create_async_session"), Public("open_async_session")}}
    ELSE {Mangle(cls, i) : i \in
            {Public("__init__"), Public("__aenter__"), Public("__aexit__"),
             Public("commit"), Public("rollback")}}

\* class SessionContextManager(DatabaseSession): the classes searched for an
\* attribute of an instance.
Mro(cls) ==
    IF cls = "SessionContextManager"
    THEN {"SessionContextManager", "DatabaseSession"}
    ELSE {"DatabaseSession"}

\* self.<ident> written inside the body of class `within`, on an instance of
\* class cls with the given instance attributes: is the attribute found?
HasAttr(cls, instanceAttrs, within, ident) ==
    \/ Mangle(within, ident) \in instanceAttrs
    \/ \E c \in Mro(cls) : Mangle(within, ident) \in ClassAttrs(c)

\* SessionContextManager.__init__ (lines 123-125): it does not call
\* DatabaseSession.__init__, so the instance has no attribute yet when line 124
\* evaluates self.__precreate_async_session inside class SessionContextManager.
\* The outcome: "ok" with the chain's result, or the exception raised.
SessionContextManagerInit(engs, facs) ==
    IF ~HasAttr("SessionContextManager", {}, "SessionContextManager",
                Private("precreate_async_session"))
    THEN [outcome |-> "AttributeError", calls |-> <<>>, factory |-> None,
          newEngines |-> <<>>, newFactories |-> <<>>]
    ELSE IF ~HasAttr("SessionContextManager", {}, "DatabaseSession", Public("url_params"))
    THEN [outcome |-> "AttributeError", calls |-> <<>>, factory |-> None,
          newEngines |-> <<>>, newFactories |-> <<>>]
    ELSE \* both lookups found: the chain runs on the attributes
         \* DatabaseSession.__init__ sets
         LET r == precreate_async_session(DatabaseSessionInit(settings), engs, facs)
         IN  [outcome |-> IF r.ok THEN "ok" ELSE "TypeError", calls |-> r.calls,
              factory |-> r.factory,
              newEngines |-> r.newEngines, newFactories |-> r.newFactories]

\* SessionContextManager().
ConstructWrapper ==
    /\ wrapperCtor = "none"
    /\ LET r == SessionContextManagerInit(engines, factories)
       IN  /\ wrapperCtor' = r.outcome
           /\ engines' = engines \o r.newEngines
           /\ factories' = factories \o r.newFactories
           /\ session_factory' = r.factory
           /\ session' = None
    /\ UNCHANGED <<settings, dbs, gens, sess, db, pc, cur, inExit, depth,
                   result, lastCall, faults>>

FactoryNext ==
    \/ Construct
    \/ ConstructWrapper
    \/ \E cm \in BOOLEAN : create_async_session(cm)
    \/ \E g \in 1..MaxGens : g <= Len(gens) /\ GenStart(g)
    \/ \E g \in 1..MaxGens : g <= Len(gens) /\ BodyOpen(g)
    \/ \E g \in 1..MaxGens, s \in 1..MaxSessions, k \in Rows :
           g <= Len(gens) /\ s <= Len(sess) /\ BodyStage(g, s, k)
    \/ \E g \in 1..MaxGens, exc \in BOOLEAN : g <= Len(gens) /\ GenFinish(g, exc)

FactoryInit ==
    /\ settings \in SettingsInputs
    /\ dbs = [state |-> "none", url_params |-> {}, engine_params |-> TRUE,
              sessionmaker_params |-> {}]
    /\ gens = <<>>
    /\ engines = <<>>
    /\ factories = <<>>
    /\ wrapperCtor = "none"
    /\ session_factory = None
    /\ session = None
    /\ sess = <<>>
    /\ db = {}
    /\ pc = [t \in AllTasks |-> "caller"]
    /\ cur = [t \in AllTasks |-> None]
    /\ inExit = [t \in AllTasks |-> FALSE]
    /\ depth = [t \in AllTasks |-> 0]
    /\ result = [t \in AllTasks |-> "none"]
    /\ lastCall = [t \in AllTasks |-> "none"]
    /\ faults = 0

\* The program as it runs: every step below is one the code takes.
SpecFactory == FactoryInit /\ [][FactoryNext]_vars

\* The whole program: the coroutines of the wrapper included.
Next == FactoryNext \/ WrapperNext
Spec == FactoryInit /\ [][Next]_vars

\* No caller ever holds an instance, so no coroutine of the wrapper ever runs:
\* no factory is stored, no session attached, no wrapper call made.
CoroutinesNeverRun ==
    /\ ~HasInstance
    /\ session_factory = None
    /\ session = None
    /\ \A t \in AllTasks : pc[t] = "caller" /\ lastCall[t] = "none" /\ depth[t] = 0

\* ---------------------------------------------------------------- claims
Sessions == 1..Len(sess)
Gens == 1..Len(gens)

\* The settings are ones the URL / engine / factory chain accepts.
ChainAccepts ==
    /\ DatabaseSessionInit(settings).state = "ok"
    /\ precreate_async_session(DatabaseSessionInit(settings), <<>>, <<>>).ok
\* A caller has evaluated SessionContextManager() on such settings.
WrapperRequested == wrapperCtor # "none" /\ ChainAccepts

\* C1, C2, C3, C4, C9 and C10 describe sessions acquired through a wrapper
\* instance. By CoroutinesNeverRun no run has such an instance or session, so
\* none of them has a formula here: its case is reached in no state.

\* C5 as stated: once the caller's block of a scoped session has ended, every
\* session of the scope is closed, rolled back if the block raised, and
\* committed if it did not.
C5_ScopeHandlesTransaction ==
    \A g \in Gens :
        gens[g].state = "finished" =>
            \A s \in Sessions :
                sess[s].factory = gens[g].factory =>
                    /\ ~sess[s].open
                    /\ gens[g].exc => sess[s].rollbacks >= 1
                    /\ ~gens[g].exc => sess[s].commits >= 1

\* C6 as stated: whenever the URL / engine / factory chain succeeds on the
\* settings, SessionContextManager() succeeds and leaves a factory and no session.
C6_WrapperConstructs ==
    WrapperRequested =>
        /\ wrapperCtor = "ok"
        /\ session_factory # None
        /\ session = None

ChainOrder == <<"URL.create", "create_async_engine", "async_sessionmaker">>

\* C7: the library calls of one chain are a non-empty prefix of URL, engine,
\* factory; a chain that failed hands out no factory; and with the required key
\* missing only URL.create is attempted: no engine, no factory and no session
\* (nothing that could open a connection) ever exists.
C7_UrlThenEngineThenFactory ==
    /\ \A g \in Gens :
           gens[g].state # "created" =>
               /\ Len(gens[g].calls) >= 1
               /\ gens[g].calls = SubSeq(ChainOrder, 1, Len(gens[g].calls))
               /\ gens[g].state = "failed" => gens[g].factory = None
               /\ "drivername" \notin dbs.url_params =>
                      /\ gens[g].calls = <<"URL.create">>
                      /\ gens[g].state = "failed"
                      /\ gens[g].engine = None
    /\ (dbs.state = "ok" /\ "drivername" \notin dbs.url_params) =>
           engines = <<>> /\ factories = <<>> /\ sess = <<>>

\* A chain has been run on parameters without drivername and has failed at
\* URL.create.
C7_Witness ==
    \E g \in Gens :
        /\ gens[g].state = "failed"
        /\ gens[g].calls = <<"URL.create">>
        /\ "drivername" \notin dbs.url_params

\* C8: what a generator yields is a factory built in that invocation, bound to
\* the engine built in that invocation from the instance's parameters; the
\* sessions the factory produces are bound to that engine; two invocations
\* share neither engine nor factory.
C8_FreshFactoryPerInvocation ==
    \A g \in Gens :
        gens[g].state \in {"yielded", "finished"} =>
            /\ gens[g].factory \in 1..Len(factories)
            /\ gens[g].engine \in 1..Len(engines)
            /\ factories[gens[g].factory].engine = gens[g].engine
            /\ factories[gens[g].factory].params = dbs.sessionmaker_params
            /\ engines[gens[g].engine].url = dbs.url_params
            /\ engines[gens[g].engine].params = dbs.engine_params
            /\ \A s \in Sessions :
                   sess[s].factory = gens[g].factory => sess[s].engine = gens[g].engine
            /\ \A h \in Gens :
                   (h # g /\ gens[h].state \in {"yielded", "finished"}) =>
                       /\ gens[h].factory # gens[g].factory
                       /\ gens[h].engine # gens[g].engine

\* Two invocations have yielded, and the block of one has opened a session.
C8_Witness ==
    /\ Len(gens) >= 2
    /\ gens[1].state = "yielded"
    /\ gens[2].state = "yielded"
    /\ \E s \in Sessions : sess[s].factory = gens[2].factory

====
